---- MODULE Spec2Model ----
(***************************************************************************)
(* Model of src/generate_dataset.py: the normalisation of a CMU Panoptic   *)
(* skeleton (normalize_skeleton), its projection (project_skel), the       *)
(* augmentation (rotate_skel, augmented_data) and the batch run            *)
(* generate_dataset, as a state machine whose program counter follows the  *)
(* statements of generate_dataset.                                         *)
(*                                                                         *)
(* Numbers.  A float is modelled by an exact rational <<n, d>> in lowest   *)
(* terms with d > 0, and the three non-finite floats by d = 0:             *)
(* <<0,0>> is NaN, <<1,0>> is +Inf, <<-1,0>> is -Inf.  The inputs are      *)
(* chosen so that every square root the code takes is rational.            *)
(*                                                                         *)
(* Matrices.  A numpy matrix skel of shape (rows, n_joints) is modelled    *)
(* column by column: skel[j] is the column skel[:, j] of the code, a       *)
(* sequence whose entry r+1 is the row r of the code (1 = x, 2 = y,        *)
(* 3 = z, 4 = confidence).  Joint indices are those of the code (0-based). *)
(***************************************************************************)
EXTENDS Integers, Sequences, FiniteSets, TLC

(* ------------------------------ bounds -------------------------------- *)
\* most frame files the walk reads in one run
MaxFrames == 3
\* most files a single directory holds
MaxFilesPerDir == 2

(* -------------------------- program constants ------------------------- *)
\* joints per body ('joints19')
NumJoints == 19
\* index of the neck joint, overwritten by the anchor
Neck == 0
\* indices of the two shoulder joints
LShoulder == 3
RShoulder == 9

Joints == 0 .. (NumJoints - 1)

(* ----------------------- floating point numbers ----------------------- *)
Abs(i) == IF i < 0 THEN -i ELSE i
Sign(i) == IF i < 0 THEN -1 ELSE IF i = 0 THEN 0 ELSE 1

RECURSIVE Gcd(_, _)
Gcd(a, b) == IF b = 0 THEN a ELSE Gcd(b, a % b)

\* the float n/d; a zero denominator gives NaN (0/0) or a signed infinity
Flt(n, d) ==
    IF d = 0 THEN <<Sign(n), 0>>
    ELSE LET g == Gcd(Abs(n), Abs(d))
         IN  <<(Sign(d) * n) \div g, Abs(d) \div g>>

NaN == <<0, 0>>
Zero == <<0, 1>>
One == <<1, 1>>
FromInt(i) == <<i, 1>>

IsFinite(a) == a[2] # 0

FNeg(a) == <<-a[1], a[2]>>

\* Sums and products cancel common factors before they multiply, which
\* keeps the intermediate integers small; the value is the exact one.
FAdd(a, b) ==
    IF a[2] = 0 /\ b[2] = 0
    THEN (IF a = b THEN a ELSE NaN)
    ELSE IF a[2] = 0 THEN a
    ELSE IF b[2] = 0 THEN b
    ELSE LET g == Gcd(a[2], b[2])
         IN  Flt(a[1] * (b[2] \div g) + b[1] * (a[2] \div g), (a[2] \div g) * b[2])
FSub(a, b) == FAdd(a, FNeg(b))
FMul(a, b) ==
    IF a[2] = 0 \/ b[2] = 0 \/ a[1] = 0 \/ b[1] = 0
    THEN Flt(a[1] * b[1], a[2] * b[2])
    ELSE LET g1 == Gcd(Abs(a[1]), b[2])
             g2 == Gcd(Abs(b[1]), a[2])
         IN  Flt((a[1] \div g1) * (b[1] \div g2), (a[2] \div g2) * (b[2] \div g1))
FDiv(a, b) ==
    IF a[2] = 0 \/ b[2] = 0 \/ b[1] = 0
    THEN Flt(a[1] * b[2], a[2] * b[1])
    ELSE FMul(a, <<Sign(b[1]) * b[2], Abs(b[1])>>)
FLess(a, b) == IsFinite(a) /\ IsFinite(b) /\ FSub(a, b)[1] < 0

\* integer square root of a perfect square
ISqrt(n) == CHOOSE r \in 0 .. n : r * r = n
\* square root of a float whose numerator and denominator are squares
FSqrt(a) ==
    IF a[2] = 0 THEN (IF a[1] = 1 THEN a ELSE NaN)
    ELSE IF a[1] < 0 THEN NaN
    ELSE <<ISqrt(a[1]), ISqrt(a[2])>>

(* ------------------------------ vectors ------------------------------- *)
VAdd(u, v) == [k \in DOMAIN u |-> FAdd(u[k], v[k])]
VSub(u, v) == [k \in DOMAIN u |-> FSub(u[k], v[k])]
VDivS(u, s) == [k \in DOMAIN u |-> FDiv(u[k], s)]
VFinite(u) == \A k \in DOMAIN u : IsFinite(u[k])

RECURSIVE SumSq(_, _)
SumSq(u, k) == IF k = 0 THEN Zero ELSE FAdd(SumSq(u, k - 1), FMul(u[k], u[k]))

RECURSIVE Dot(_, _, _)
Dot(u, v, k) == IF k = 0 THEN Zero ELSE FAdd(Dot(u, v, k - 1), FMul(u[k], v[k]))

\* scipy.spatial.distance.euclidean(u, v)
euclidean(u, v) == LET w == VSub(u, v) IN FSqrt(SumSq(w, Len(w)))

\* numpy.linalg.norm(v)
norm(v) == FSqrt(SumSq(v, Len(v)))

\* numpy.clip(x, -1.0, 1.0); NaN passes through
clip(x) ==
    IF FLess(x, FromInt(-1)) THEN FromInt(-1)
    ELSE IF FLess(One, x) THEN One
    ELSE x

(* ------------------------------- angles ------------------------------- *)
\* An angle is modelled by the pair <<cos, sin>> of its cosine and sine;
\* NaNAngle is the angle NaN.
NaNAngle == <<NaN, NaN>>

\* numpy.arccos(c): the angle in [0, pi] whose cosine is c, so its sine is
\* the non-negative root of 1 - c*c
arccos(c) ==
    IF ~IsFinite(c) THEN NaNAngle
    ELSE <<c, FSqrt(FSub(One, FMul(c, c)))>>

\* utils.angle_between(v1, v2): the unsigned angle between v1 and v2, by the
\* clamped normalised dot product; a zero-length vector is a domain error
angle_between(v1, v2) ==
    IF norm(v1) = Zero \/ norm(v2) = Zero
    THEN [raised |-> TRUE, angle |-> NaNAngle]
    ELSE [raised |-> FALSE,
          angle  |-> arccos(clip(Dot(VDivS(v1, norm(v1)),
                                     VDivS(v2, norm(v2)), Len(v1))))]

\* the direction the shoulder line is turned to
Reference == <<FromInt(-1), Zero>>

\* pyquaternion: Quaternion(axis=[0, 1, 0], angle=a).rotate(v), the right-handed
\* rotation of v about the y axis.  A NaN angle, or a non-finite coordinate,
\* makes every term of the quaternion product NaN.
rotate(a, v) ==
    IF ~VFinite(a) \/ ~VFinite(v) THEN <<NaN, NaN, NaN>>
    ELSE <<FAdd(FMul(v[1], a[1]), FMul(v[3], a[2])),
           v[2],
           FSub(FMul(v[3], a[1]), FMul(v[1], a[2]))>>

(* ------------------------- normalize_skeleton ------------------------- *)
\* skel = _skel[:3, :]
drop_confidence(_skel) == [j \in DOMAIN _skel |-> SubSeq(_skel[j], 1, 3)]

\* anchor_pt = (skel[:, 3] + skel[:, 9]) / 2.0
anchor_pt(skel) == VDivS(VAdd(skel[LShoulder], skel[RShoulder]), FromInt(2))

\* a resize factor that forgets the square root of the distance
resize_factor_squared(skel) ==
    LET w == VSub(skel[LShoulder], skel[RShoulder]) IN SumSq(w, Len(w))

\* resize_factor = distance.euclidean(skel[:, 3], skel[:, 9])
resize_factor(skel) == euclidean(skel[LShoulder], skel[RShoulder])

\* skel[0::2, 3] - skel[0::2, 9]: rows x and z of the shoulder difference
shoulder_xz(skel) ==
    <<FSub(skel[LShoulder][1], skel[RShoulder][1]),
      FSub(skel[LShoulder][3], skel[RShoulder][3])>>

\* the translation and scaling loop
scaled(skel) ==
    LET a == anchor_pt(skel)
        s == [skel EXCEPT ![Neck] = a]
        f == resize_factor(s)
    IN  [j \in DOMAIN s |-> VDivS(VSub(s[j], a), f)]

\* normalize_skeleton(_skel): raised when angle_between raises, else the
\* normalised skeleton
normalize_skeleton(_skel) ==
    LET s == scaled(drop_confidence(_skel))
        r == angle_between(shoulder_xz(s), Reference)
    IN  IF r.raised
        THEN [raised |-> TRUE, skel |-> s]
        ELSE [raised |-> FALSE,
              skel   |-> [j \in DOMAIN s |-> rotate(r.angle, s[j])]]

(* ---------------------------- project_skel ---------------------------- *)
\* a projection that drops the first row instead of the third
project_skel_last_rows(skel_3d) == [j \in DOMAIN skel_3d |-> SubSeq(skel_3d[j], 2, 3)]

\* skel_2d = skel_3d[:2, :]
project_skel(skel_3d) == [j \in DOMAIN skel_3d |-> SubSeq(skel_3d[j], 1, 2)]

(* ----------------------------- rotate_skel ---------------------------- *)
\* The rotation amounts drawn by uniform(-20, +20), in units of
\* atan(7/24) = 16.26 degrees, an angle whose sine and cosine are rational.
Degrees == {-1, 0, 1}

\* math.radians(degree), as the pair <<cos, sin>> of the angle
radians(degree) ==
    IF degree = 0 THEN <<One, Zero>> ELSE <<Flt(24, 25), Flt(7 * degree, 25)>>

\* a rotation that works on its argument instead of on a copy of it
rotate_skel_in_place(skel_3d, degree) ==
    LET out == [j \in DOMAIN skel_3d |-> rotate(radians(degree), skel_3d[j])]
    IN  [arg |-> out, ret |-> out]

\* rotate_skel(skel_3d, degree): ret is the returned array, arg the array
\* passed in as the call leaves it (rotated_skel is a copy: arg is untouched)
rotate_skel(skel_3d, degree) ==
    [arg |-> skel_3d,
     ret |-> [j \in DOMAIN skel_3d |-> rotate(radians(degree), skel_3d[j])]]

(* ---------------------------- augmented_data -------------------------- *)
RECURSIVE SumAll(_, _)
SumAll(skel, j) ==
    IF j < 0 THEN Zero
    ELSE FAdd(SumAll(skel, j - 1), FAdd(FAdd(skel[j][1], skel[j][2]), skel[j][3]))

RECURSIVE SumSqAll(_, _)
SumSqAll(skel, j) ==
    IF j < 0 THEN Zero
    ELSE FAdd(SumSqAll(skel, j - 1), SumSq(skel[j], 3))

\* numpy.std(skel) squared: the variance of all entries of the matrix
variance(skel) ==
    LET n == FromInt(3 * NumJoints)
        m == FDiv(SumAll(skel, NumJoints - 1), n)
    IN  FSub(FDiv(SumSqAll(skel, NumJoints - 1), n), FMul(m, m))

\* noise_amount = np.std(skeletons_3d[0][:]) / 10.0, kept as its square
noise_amount_sq(skeletons_3d) == FDiv(variance(skeletons_3d[1]), FromInt(100))

\* the noise matrices the model draws: all entries 0, or all entries 1/100
NoisePatterns ==
    { [j \in Joints |-> <<e, e, e>>] : e \in {Zero, Flt(1, 100)} }

\* np.random.uniform(0, noise_amount, shape) draws every entry from
\* [0, noise_amount)
InRange(e, amount_sq) == e = Zero \/ FLess(FMul(e, e), amount_sq)
Noises(amount_sq) ==
    { m \in NoisePatterns : \A j \in Joints : \A r \in 1 .. 3 : InRange(m[j][r], amount_sq) }

\* a noise step that does not reset the neck
noise_variant_unpinned(skel_3d, noise) ==
    [arg |-> skel_3d,
     ret |-> [j \in DOMAIN skel_3d |-> VAdd(skel_3d[j], noise[j])]]

\* new_sample = skel_3d + noise; new_sample[:, 0] = 0: ret is the new array,
\* arg the input skeleton as the statements leave it (the sum is a new array)
noise_variant(skel_3d, noise) ==
    [arg |-> skel_3d,
     ret |-> [[j \in DOMAIN skel_3d |-> VAdd(skel_3d[j], noise[j])]
                 EXCEPT ![Neck] = <<Zero, Zero, Zero>>]]

\* an iteration that appends the noise variant before the rotation variant
aug_iteration_swapped(skel_3d, degree, noise) ==
    [input   |-> skel_3d,
     samples |-> <<[[j \in DOMAIN skel_3d |-> VAdd(skel_3d[j], noise[j])]
                       EXCEPT ![Neck] = <<Zero, Zero, Zero>>],
                   [j \in DOMAIN skel_3d |-> rotate(radians(degree), skel_3d[j])]>>]

\* one iteration of the loop of augmented_data: the samples it appends, in
\* the order it appends them, and the input skeleton as the iteration leaves it
aug_iteration(skel_3d, degree, noise) ==
    LET r == rotate_skel(skel_3d, degree)
        n == noise_variant(r.arg, noise)
    IN  [input |-> n.arg, samples |-> <<r.ret, n.ret>>]

(* ------------------------------- inputs ------------------------------- *)
\* The bodies of the input files, by the difference joint 3 - joint 9 of
\* their shoulders:  neg (3, 0, -4), pos (3, 0, 4), flat (-4, 3, 0),
\* degen (0, 0, 0), vert (0, 5, 0).
BodyIds == {"neg", "pos", "flat", "degen", "vert"}

ShoulderDiff(b) ==
    CASE b = "neg"   -> <<3, 0, -4>>
      [] b = "pos"   -> <<3, 0, 4>>
      [] b = "flat"  -> <<-4, 3, 0>>
      [] b = "degen" -> <<0, 0, 0>>
      [] b = "vert"  -> <<0, 5, 0>>

\* np.array(body['joints19']).reshape((-1, 4)).transpose(): the 4 x 19 matrix
\* of the body b
RawBody(b) ==
    [j \in Joints |->
        IF j = RShoulder THEN <<FromInt(1), FromInt(2), FromInt(3), One>>
        ELSE IF j = LShoulder
        THEN <<FromInt(1 + ShoulderDiff(b)[1]), FromInt(2 + ShoulderDiff(b)[2]),
               FromInt(3 + ShoulderDiff(b)[3]), One>>
        ELSE <<FromInt(j - 7), FromInt(2 * (j % 5) - 3), FromInt((j % 3) - 1), One>>]

\* A file of a directory: a frame with its list of bodies, a frame without
\* the key 'bodies', or a file json.load cannot parse.
Frame(bs) == [kind |-> "frame", bodies |-> bs]
NoKey == [kind |-> "nokey", bodies |-> <<>>]
BadJson == [kind |-> "badjson", bodies |-> <<>>]
Files ==
    { Frame(<<>>), Frame(<<"neg">>), Frame(<<"pos", "flat">>), Frame(<<"degen">>),
      Frame(<<"vert">>), NoKey, BadJson }

FileLists == UNION { [1 .. n -> Files] : n \in 0 .. MaxFilesPerDir }

(* ------------------------------- state -------------------------------- *)
VARIABLES
    pc,                 \* the statement of generate_dataset about to run
    err,                \* the exception that ended the run, or "none"
    frames,             \* the list frames
    fi,                 \* index (from 1) of the next frame of the normalize loop
    skeletons_3d,       \* the list skeletons_3d
    aug_status,         \* augmented_data: "idle", "running", "returned", "raised"
    noise_amount,       \* augmented_data: noise_amount, as its square
    ai,                 \* augmented_data: index (from 1) of the next input skeleton
    augmented_samples,  \* augmented_data: the list augmented_samples
    skeletons_2d,       \* the list skeletons_2d
    file,               \* the output file: "absent", "old", "truncated", "partial", "written"
    file_data,          \* the dataset the output file holds when it is "written"
    h_file,             \* history: the output file as the run found it
    h_input             \* history: the list passed to augmented_data, as passed

vars == <<pc, err, frames, fi, skeletons_3d, aug_status, noise_amount, ai,
          augmented_samples, skeletons_2d, file, file_data, h_file, h_input>>

NoData == <<>>

Init ==
    /\ pc = "walk"
    /\ err = "none"
    /\ frames = <<>>
    /\ fi = 1
    /\ skeletons_3d = <<>>
    /\ aug_status = "idle"
    /\ noise_amount = NaN
    /\ ai = 1
    /\ augmented_samples = <<>>
    /\ skeletons_2d = <<>>
    /\ file \in {"absent", "old"}
    /\ file_data = NoData
    /\ h_file = file
    /\ h_input = <<>>

\* An exception leaves generate_dataset: its locals are gone, the output
\* file stays as it is.
Raise(e) ==
    /\ pc' = "error"
    /\ err' = e
    /\ frames' = <<>>
    /\ fi' = 1
    /\ skeletons_3d' = <<>>
    /\ noise_amount' = NaN
    /\ ai' = 1
    /\ augmented_samples' = <<>>
    /\ skeletons_2d' = <<>>

(* ----------------------- the walk over raw_dir ------------------------ *)
RECURSIVE FirstBad(_, _)
\* index of the first file of files, from k on, that json.load rejects, or 0
FirstBad(files, k) ==
    IF k > Len(files) THEN 0
    ELSE IF files[k].kind = "badjson" THEN k
    ELSE FirstBad(files, k + 1)

\* One iteration of the loop over os.walk(raw_dir): a directory whose name
\* holds 'hdPose3d_stage1' (marker) has each of its files loaded and appended.
WalkDir ==
    /\ pc = "walk"
    /\ \E marker \in BOOLEAN, files \in FileLists :
        /\ Len(frames) + Len(files) <= MaxFrames
        /\ IF ~marker
           THEN UNCHANGED vars
           ELSE IF FirstBad(files, 1) # 0
           THEN /\ Raise("ValueError")
                /\ UNCHANGED <<aug_status, file, file_data, h_file, h_input>>
           ELSE /\ frames' = frames \o files
                /\ UNCHANGED <<pc, err, fi, skeletons_3d, aug_status, noise_amount, ai,
                               augmented_samples, skeletons_2d, file, file_data,
                               h_file, h_input>>

\* a slice that starts at the second frame: frames[1::2]
every_second_from_one(s) == [i \in 1 .. (Len(s) \div 2) |-> s[2 * i]]

\* frames[::2]
every_second(s) == [i \in 1 .. ((Len(s) + 1) \div 2) |-> s[2 * i - 1]]

\* os.walk is exhausted; frames = frames[::2]
Slice ==
    /\ pc = "walk"
    /\ frames' = every_second(frames)
    /\ pc' = "normalize"
    /\ UNCHANGED <<err, fi, skeletons_3d, aug_status, noise_amount, ai,
                   augmented_samples, skeletons_2d, file, file_data, h_file, h_input>>

(* -------------------------- the normalize loop ------------------------ *)
RECURSIVE normalize_bodies(_, _, _)
\* the loop over frame['bodies'], from body k on: the list skeletons_3d as the
\* loop leaves it, and whether normalize_skeleton raised
normalize_bodies(bodies, k, acc) ==
    IF k > Len(bodies) THEN [raised |-> FALSE, skels |-> acc]
    ELSE LET r == normalize_skeleton(RawBody(bodies[k]))
         IN  IF r.raised THEN [raised |-> TRUE, skels |-> acc]
             ELSE normalize_bodies(bodies, k + 1, Append(acc, r.skel))

\* One iteration of the loop over frames.
NormalizeFrame ==
    /\ pc = "normalize"
    /\ fi <= Len(frames)
    /\ IF frames[fi].kind = "nokey"
       THEN /\ Raise("KeyError")
            /\ UNCHANGED <<aug_status, file, file_data, h_file, h_input>>
       ELSE LET r == normalize_bodies(frames[fi].bodies, 1, skeletons_3d)
            IN  IF r.raised
                THEN /\ Raise("GeometryError")
                     /\ UNCHANGED <<aug_status, file, file_data, h_file, h_input>>
                ELSE /\ skeletons_3d' = r.skels
                     /\ fi' = fi + 1
                     /\ UNCHANGED <<pc, err, frames, aug_status, noise_amount, ai,
                                    augmented_samples, skeletons_2d, file, file_data,
                                    h_file, h_input>>

(* ---------------------------- augmented_data -------------------------- *)
\* The call augmented_data(skeletons_3d), up to its loop: skeletons_3d[0]
\* of an empty list is an IndexError.
AugBegin ==
    /\ pc = "normalize"
    /\ fi > Len(frames)
    /\ h_input' = skeletons_3d
    /\ IF skeletons_3d = <<>>
       THEN /\ Raise("IndexError")
            /\ aug_status' = "raised"
            /\ UNCHANGED <<file, file_data, h_file>>
       ELSE /\ noise_amount' = noise_amount_sq(skeletons_3d)
            /\ augmented_samples' = <<>>
            /\ ai' = 1
            /\ aug_status' = "running"
            /\ pc' = "augment"
            /\ UNCHANGED <<err, frames, fi, skeletons_3d, skeletons_2d, file,
                           file_data, h_file>>

\* One iteration of the loop of augmented_data; after the last one the
\* function returns.  numpy's uniform raises OverflowError when its range
\* is not finite.
AugStep ==
    /\ pc = "augment"
    /\ ai <= Len(skeletons_3d)
    /\ IF ~IsFinite(noise_amount)
       THEN /\ Raise("OverflowError")
            /\ aug_status' = "raised"
            /\ UNCHANGED <<file, file_data, h_file, h_input>>
       ELSE \E degree \in Degrees, noise \in Noises(noise_amount) :
            LET r == aug_iteration(skeletons_3d[ai], degree, noise)
            IN  /\ skeletons_3d' = [skeletons_3d EXCEPT ![ai] = r.input]
                /\ augmented_samples' = augmented_samples \o r.samples
                /\ ai' = ai + 1
                /\ aug_status' = IF ai = Len(skeletons_3d) THEN "returned" ELSE "running"
                /\ UNCHANGED <<pc, err, frames, fi, noise_amount, skeletons_2d, file,
                               file_data, h_file, h_input>>

(* ------------------------ the rest of the run ------------------------- *)
\* skeletons_3d.extend(...), the projection loop and the dataset dictionary
Project ==
    /\ pc = "augment"
    /\ aug_status = "returned"
    /\ LET all == skeletons_3d \o augmented_samples
       IN  /\ skeletons_3d' = all
           /\ skeletons_2d' = [i \in 1 .. Len(all) |-> project_skel(all[i])]
    /\ pc' = "open"
    /\ UNCHANGED <<err, frames, fi, aug_status, noise_amount, ai, augmented_samples,
                   file, file_data, h_file, h_input>>

\* dataset = {'3d': skeletons_3d, '2d': skeletons_2d}
dataset == ("3d" :> skeletons_3d) @@ ("2d" :> skeletons_2d)

\* open(pickle_file, 'wb'): creates or truncates the file, or fails
Open ==
    /\ pc = "open"
    /\ \/ /\ file' = "truncated"
          /\ pc' = "dump"
          /\ UNCHANGED <<err, frames, fi, skeletons_3d, aug_status, noise_amount, ai,
                         augmented_samples, skeletons_2d, file_data, h_file, h_input>>
       \/ /\ Raise("IOError")
          /\ UNCHANGED <<aug_status, file, file_data, h_file, h_input>>

\* pickle.dump(dataset, f): writes the whole dataset, or fails part-way
Dump ==
    /\ pc = "dump"
    /\ \/ /\ file' = "written"
          /\ file_data' = dataset
          /\ pc' = "done"
          /\ UNCHANGED <<err, frames, fi, skeletons_3d, aug_status, noise_amount, ai,
                         augmented_samples, skeletons_2d, h_file, h_input>>
       \/ /\ Raise("IOError")
          /\ file' = "partial"
          /\ UNCHANGED <<aug_status, file_data, h_file, h_input>>

Next ==
    \/ WalkDir
    \/ Slice
    \/ NormalizeFrame
    \/ AugBegin
    \/ AugStep
    \/ Project
    \/ Open
    \/ Dump

Spec == Init /\ [][Next]_vars

(* ------------------------------ properties ---------------------------- *)
RECURSIVE BodiesOf(_, _)
\* the bodies of the first k frames of fs, in frame order then body order
BodiesOf(fs, k) == IF k = 0 THEN <<>> ELSE BodiesOf(fs, k - 1) \o fs[k].bodies

\* the bodies the normalize loop has been through
Processed == BodiesOf(frames, fi - 1)

\* the indices k for which skeletons_3d[k] is what normalize_skeleton
\* returned for the body Processed[k]
Normalized == { k \in 1 .. Len(Processed) : k <= Len(skeletons_3d) }

Shoulder(b, j) == SubSeq(RawBody(b)[j], 1, 3)
DistinctShoulders(b) == Shoulder(b, LShoulder) # Shoulder(b, RShoulder)
Origin == <<Zero, Zero, Zero>>

\* C1: a skeleton normalize_skeleton returns for a body with distinct
\* shoulders has joint 0 at the origin and its shoulders at distance 1.
C1_RootAndScale ==
    \A k \in Normalized :
        DistinctShoulders(Processed[k]) =>
            /\ skeletons_3d[k][Neck] = Origin
            /\ euclidean(skeletons_3d[k][LShoulder], skeletons_3d[k][RShoulder]) = One

\* a body whose neck is off the shoulder midpoint and whose shoulders are
\* 5 apart, not along an axis, has been normalised
C1_Witness ==
    \E k \in Normalized :
        /\ Processed[k] = "neg"
        /\ pc = "normalize"
        /\ Shoulder("neg", Neck) # anchor_pt(RawBody("neg"))
        /\ resize_factor(RawBody("neg")) = FromInt(5)

\* C2: after normalize_skeleton the (x, z) projection of joint 3 - joint 9
\* has z component 0, whatever the orientation of the shoulder line was.
C2_Frontal ==
    \A k \in Normalized :
        DistinctShoulders(Processed[k]) => shoulder_xz(skeletons_3d[k])[2] = Zero

\* C3: a call of augmented_data on N skeletons returns 2N new skeletons,
\* the empty list included.
C3_TwoPerInput ==
    aug_status \in {"returned", "raised"} =>
        /\ aug_status = "returned"
        /\ Len(augmented_samples) = 2 * Len(h_input)

IsRotationOf(s, o) == \E degree \in Degrees : s = rotate_skel(o, degree).ret
IsNoiseOf(s, o) == \E noise \in NoisePatterns : s = noise_variant(o, noise).ret

\* C4: the 3D sequence holds the N originals first, in order, and then for
\* each original i its rotation variant at N + 2i and its noise variant at
\* N + 2i + 1 (positions from 0).
C4_Interleaved ==
    pc \in {"open", "dump"} =>
        LET N == Len(h_input)
        IN  /\ Len(skeletons_3d) = 3 * N
            /\ \A i \in 1 .. N :
                /\ skeletons_3d[i] = h_input[i]
                /\ IsRotationOf(skeletons_3d[N + 2 * i - 1], h_input[i])
                /\ IsNoiseOf(skeletons_3d[N + 2 * i], h_input[i])

\* two originals, and the first one's rotation variant is no noise variant
\* of it and its noise variant no rotation variant of it
C4_Witness ==
    /\ pc = "open"
    /\ Len(h_input) >= 2
    /\ ~IsNoiseOf(skeletons_3d[Len(h_input) + 1], h_input[1])
    /\ ~IsRotationOf(skeletons_3d[Len(h_input) + 2], h_input[1])

\* C5: when augmented_data returns, the list it was given has the length
\* and the contents it had at the call.
C5_InputUnchanged ==
    (pc = "augment" /\ aug_status = "returned") =>
        /\ Len(skeletons_3d) = Len(h_input)
        /\ \A i \in 1 .. Len(h_input) : skeletons_3d[i] = h_input[i]

\* augmented_data has returned after a rotation that moved joints and a
\* noise that was not zero
C5_Witness ==
    /\ pc = "augment"
    /\ aug_status = "returned"
    /\ augmented_samples[1] # h_input[1]
    /\ augmented_samples[2][LShoulder] # h_input[1][LShoulder]

\* C6: every noise variant (the second sample of each pair) has joint 0 at
\* exactly (0, 0, 0).
C6_NoiseNeckZero ==
    \A k \in 1 .. Len(augmented_samples) :
        k % 2 = 0 => augmented_samples[k][Neck] = Origin

\* a noise variant with non-zero noise, and a noise variant of a source
\* whose joint 0 is not the origin
C6_Witness ==
    /\ Len(augmented_samples) >= 4
    /\ augmented_samples[2][LShoulder] # h_input[1][LShoulder]
    /\ h_input[2][Neck] # Origin
    /\ augmented_samples[4][Neck] = Origin

\* C7: in the file written, '3d' and '2d' have the same length, 3 times the
\* number of bodies processed, and '2d'[i] is '3d'[i] without its third row.
C7_Parallel ==
    file = "written" =>
        /\ Len(file_data["3d"]) = 3 * Len(Processed)
        /\ Len(file_data["2d"]) = Len(file_data["3d"])
        /\ \A i \in 1 .. Len(file_data["3d"]) :
            /\ DOMAIN file_data["2d"][i] = Joints
            /\ \A j \in Joints :
                file_data["2d"][i][j]
                    = <<file_data["3d"][i][j][1], file_data["3d"][i][j][2]>>

\* a file written from two bodies, with a z row that differs from the x row
C7_Witness ==
    /\ file = "written"
    /\ Len(file_data["3d"]) = 6
    /\ \E j \in Joints : file_data["3d"][1][j][3] # file_data["3d"][1][j][1]

\* C8: normalize_skeleton returns no skeleton for a body whose two shoulder
\* joints are identical: it raises.
C8_DegenerateRaises ==
    \A k \in Normalized : DistinctShoulders(Processed[k])

IsPrefix(s, t) == Len(s) <= Len(t) /\ \A i \in 1 .. Len(s) : t[i] = s[i]

\* kept holds exactly the frames of fs at the positions 0, 2, 4, ... (from 0),
\* in their order
KeepsEvenPositions(fs, kept) ==
    /\ Len(kept) = Cardinality({p \in 0 .. (Len(fs) - 1) : p % 2 = 0})
    /\ \A p \in 0 .. (Len(fs) - 1) : p % 2 = 0 => kept[(p \div 2) + 1] = fs[p + 1]

RECURSIVE NormalizedBodies(_, _)
\* normalize_skeleton of each of the first k bodies of bs
NormalizedBodies(bs, k) ==
    IF k = 0 THEN <<>>
    ELSE Append(NormalizedBodies(bs, k - 1), normalize_skeleton(RawBody(bs[k])).skel)

\* C9: the walk appends the frames in traversal order; the frames kept are
\* those at even positions of that list; and the normalize loop leaves one
\* normalised skeleton per body of the kept frames, in frame order then body
\* order.
C9_Downsample ==
    [][ /\ (pc = "walk" /\ pc' = "walk") => IsPrefix(frames, frames')
        /\ (pc = "walk" /\ pc' = "normalize") => KeepsEvenPositions(frames, frames')
        /\ (pc = "normalize" /\ pc' = "augment") =>
              skeletons_3d' = NormalizedBodies(BodiesOf(frames, Len(frames)),
                                               Len(BodiesOf(frames, Len(frames))))
      ]_vars

\* two frames kept, holding three bodies, all normalised
C9_Witness ==
    /\ pc = "augment"
    /\ Len(frames) = 2
    /\ Len(frames[1].bodies) = 2
    /\ Len(skeletons_3d) = 3

\* C10: a run that failed has left the output file as it found it.
C10_NoPartialOutput == pc = "error" => file = h_file

====
